---- MODULE Spec2Model ----
(***************************************************************************)
(* Model of the `ob` command line tool (src/src/ob/cli.py and              *)
(* src/src/ob/commands.py).                                                *)
(*                                                                         *)
(* One state = the world between two invocations of the tool: the store    *)
(* file ~/.ob_config and what the last invocation did.  One action = one   *)
(* whole invocation of a command.                                          *)
(*                                                                         *)
(* Text values (repo, issue_number as written in the file, workflow        *)
(* inputs) are sequences of one-character strings, so that what            *)
(* configparser does to a value when it writes, parses and interpolates it *)
(* is computed and not assumed.  The alphabet of values is                 *)
(* {"o", " ", "%", digits, "-"}: it has no "(", so a "%(name)s" reference  *)
(* is outside the model.  Aliases are non-empty one-line names, for which  *)
(* the "[alias]" header parses back to the alias; "DEFAULT" is the name    *)
(* configparser reserves.                                                  *)
(***************************************************************************)
EXTENDS Integers, Sequences, FiniteSets, TLC

\* ------------------------------------------------------------------------
\* Bounds and input domains
\* ------------------------------------------------------------------------

\* number of distinct user aliases the commands are called with
MaxAliases == 2

AliasPool == <<"a", "b", "c", "d">>

\* Python's None (an argument not given, an environment variable not set)
None == "None"

\* the aliases given on the command line
Aliases == {AliasPool[i] : i \in 1..MaxAliases} \cup {"DEFAULT"}

\* the (repo, issue_number) arguments given to `table add`: a plain repo, a
\* repo with a leading blank and an escaped percent sign, and a repo with a
\* bare percent sign
AddInputs ==
    {[repo |-> <<"o">>, issue_number |-> 7],
     [repo |-> <<" ", "%", "%">>, issue_number |-> 12],
     [repo |-> <<"%">>, issue_number |-> 7]}

\* ------------------------------------------------------------------------
\* Python and configparser helpers
\* ------------------------------------------------------------------------

\* str.strip() on the characters of the alphabet
IsSpace(c) == c \in {" ", "\t"}

RECURSIVE LStrip(_)
LStrip(s) ==
    IF s = <<>> THEN <<>>
    ELSE IF IsSpace(Head(s)) THEN LStrip(Tail(s)) ELSE s

RECURSIVE RStrip(_)
RStrip(s) ==
    IF s = <<>> THEN <<>>
    ELSE IF IsSpace(s[Len(s)]) THEN RStrip(SubSeq(s, 1, Len(s) - 1)) ELSE s

Strip(s) == RStrip(LStrip(s))

\* value.replace('%%', '')
RECURSIVE DropEscapedPercent(_)
DropEscapedPercent(s) ==
    IF s = <<>> THEN <<>>
    ELSE IF Len(s) >= 2 /\ s[1] = "%" /\ s[2] = "%"
         THEN DropEscapedPercent(SubSeq(s, 3, Len(s)))
         ELSE <<Head(s)>> \o DropEscapedPercent(Tail(s))

\* BasicInterpolation.before_set: TRUE when the value is accepted, FALSE
\* when set() raises ValueError (invalid interpolation syntax)
before_set(value) ==
    \A i \in 1..Len(DropEscapedPercent(value)) :
        DropEscapedPercent(value)[i] # "%"

\* BasicInterpolation.before_get / _interpolate_some: the value with "%%"
\* turned into "%"; a "%" followed by anything else is a syntax error
InterpolationError == <<"InterpolationSyntaxError">>

RECURSIVE before_get(_)
before_get(s) ==
    IF s = <<>> THEN <<>>
    ELSE IF Head(s) # "%" THEN
        LET rest == before_get(Tail(s))
        IN  IF rest = InterpolationError THEN InterpolationError
            ELSE <<Head(s)>> \o rest
    ELSE IF Len(s) >= 2 /\ s[2] = "%" THEN
        LET rest == before_get(SubSeq(s, 3, Len(s)))
        IN  IF rest = InterpolationError THEN InterpolationError
            ELSE <<"%">> \o rest
    ELSE InterpolationError

\* str(int)
DigitChars == <<"0", "1", "2", "3", "4", "5", "6", "7", "8", "9">>

RECURSIVE NatToStr(_)
NatToStr(n) ==
    IF n < 10 THEN <<DigitChars[n + 1]>>
    ELSE NatToStr(n \div 10) \o <<DigitChars[(n % 10) + 1]>>

IntToStr(n) == IF n < 0 THEN <<"-">> \o NatToStr(0 - n) ELSE NatToStr(n)

\* int(str) on what str(int) produces
DigitValue(c) == CHOOSE d \in 0..9 : DigitChars[d + 1] = c

RECURSIVE StrToNat(_)
StrToNat(s) ==
    IF s = <<>> THEN 0
    ELSE 10 * StrToNat(SubSeq(s, 1, Len(s) - 1)) + DigitValue(s[Len(s)])

StrToInt(s) ==
    IF s # <<>> /\ Head(s) = "-" THEN 0 - StrToNat(Tail(s)) ELSE StrToNat(s)

\* ------------------------------------------------------------------------
\* configparser.ConfigParser, as the commands use it
\*
\* A parser (conf) is the sequence of its sections in insertion order; a
\* section is [name, opts], opts the sequence of its [key, value] options.
\* The store file is the sequence of the blocks of text written for the
\* sections: a block is the header line "[name]", the option lines
\* "key = value" as written, and a closing blank line.  A block is torn when
\* the text ends inside one of its lines (a write that was cut short).
\* ------------------------------------------------------------------------

Block(name, opts, torn) == [name |-> name, opts |-> opts, torn |-> torn]

\* conf.has_section(section): the default section is never listed
has_section(conf, section) ==
    \E i \in 1..Len(conf) : conf[i].name = section

\* conf.sections()
sections(conf) == [i \in 1..Len(conf) |-> conf[i].name]

\* conf.add_section(section) raises ValueError for the default section name
\* and DuplicateSectionError for a section it holds
add_section_raises(conf, section) ==
    \/ section = "DEFAULT"
    \/ \E i \in 1..Len(conf) : conf[i].name = section

\* conf.add_section(section)
add_section(conf, section) == Append(conf, [name |-> section, opts |-> <<>>])

\* the options of a section after sectdict[key] = value
SetOption(opts, key, value) ==
    IF \E i \in 1..Len(opts) : opts[i].key = key
    THEN [i \in 1..Len(opts) |->
            IF opts[i].key = key THEN [key |-> key, value |-> value] ELSE opts[i]]
    ELSE Append(opts, [key |-> key, value |-> value])

\* conf.set(section, key, value), for a value before_set accepts
set(conf, section, key, value) ==
    [i \in 1..Len(conf) |->
        IF conf[i].name = section
        THEN [conf[i] EXCEPT !.opts = SetOption(@, key, value)]
        ELSE conf[i]]

\* conf.remove_section(section)
remove_section(conf, section) == SelectSeq(conf, LAMBDA s : s.name # section)

\* what conf.get raises instead of returning a value
NoOptionError == <<"NoOptionError">>

GetErrors == {NoOptionError, InterpolationError}

\* the options of a section the parser has
OptionsOf(conf, section) ==
    conf[CHOOSE i \in 1..Len(conf) : conf[i].name = section].opts

has_option(conf, section, key) ==
    \E i \in 1..Len(OptionsOf(conf, section)) :
        OptionsOf(conf, section)[i].key = key

RawValue(conf, section, key) ==
    LET opts == OptionsOf(conf, section)
    IN  opts[CHOOSE i \in 1..Len(opts) : opts[i].key = key].value

\* conf.get(section, key) on a section the parser has: the interpolated
\* value, or the error raised
get(conf, section, key) ==
    IF ~has_option(conf, section, key) THEN NoOptionError
    ELSE before_get(RawValue(conf, section, key))

\* conf.get(section, key, fallback="N/A")
FallbackText == <<"N", "/", "A">>

get_fallback(conf, section, key) ==
    IF ~has_option(conf, section, key) THEN FallbackText
    ELSE before_get(RawValue(conf, section, key))

\* conf.write(f): a block for every section, in order, the values as they
\* are in the parser
write(conf) ==
    [i \in 1..Len(conf) |-> Block(conf[i].name, conf[i].opts, FALSE)]

\* conf.read(path) raises ParsingError on a line that is neither a header
\* nor an option, DuplicateSectionError on a header seen before and
\* DuplicateOptionError on a key seen before in its section
ParseOk(blocks) ==
    /\ \A i \in 1..Len(blocks) : ~blocks[i].torn
    /\ \A i, j \in 1..Len(blocks) : i # j => blocks[i].name # blocks[j].name
    /\ \A i \in 1..Len(blocks) : \A m, n \in 1..Len(blocks[i].opts) :
          m # n => blocks[i].opts[m].key # blocks[i].opts[n].key

\* the value of an option line as the parser keeps it: optval.strip()
ParsedOptions(opts) ==
    [n \in 1..Len(opts) |-> [key |-> opts[n].key, value |-> Strip(opts[n].value)]]

\* conf.read(path): the sections in file order
read(blocks) ==
    IF ParseOk(blocks)
    THEN [ok |-> TRUE,
          conf |-> [i \in 1..Len(blocks) |->
                      [name |-> blocks[i].name,
                       opts |-> ParsedOptions(blocks[i].opts)]]]
    ELSE [ok |-> FALSE, conf |-> <<>>]


\* ------------------------------------------------------------------------
\* The state
\* ------------------------------------------------------------------------

VARIABLES
    exists,      \* OB_CONFIG_PATH.exists()
    file,        \* the text of the store file (<<>> while it does not exist)
    added,       \* per alias, what the last successful `table add` was given
                 \* and no `table remove` has taken away since (history)
    cmd,         \* the last invocation: the command and its arguments
    exit,        \* how it ended: "ok" or the error that ended it
    loads,       \* how many times it called get_config
    table,       \* the rows `table show` printed
    dispatched,  \* its calls of trigger_workflow_dispatch
    cred,        \* the token the GitHub client was built with
    calls,       \* the calls made on the GitHub client, with their results
    ret          \* what trigger_workflow_dispatch returned

vars == <<exists, file, added, cmd, exit, loads, table, dispatched, cred, calls, ret>>

store == <<exists, file>>

\* a text argument that was not given
NoText == <<"None">>

\* an int argument: <<>> when not given, <<n>> when given
NoInt == <<>>

\* ------------------------------------------------------------------------
\* commands.py: trigger_workflow_dispatch
\* ------------------------------------------------------------------------

\* what the remote system does with this invocation's requests
RemoteBehaviours ==
    {"ack", "nack", "repo_error", "workflow_error", "dispatch_error"}

\* inputs=None
NoneInputs == {<<"None">>}

\* a variant of line 44 that asks for PAT first:
\* os.getenv("PAT") or os.getenv("GITHUB_TOKEN")
EnvToken_pat_first(gh, pat) == IF pat # None /\ pat # "" THEN pat ELSE gh

\* os.getenv("GITHUB_TOKEN") or os.getenv("PAT")
EnvToken(gh, pat) == IF gh # None /\ gh # "" THEN gh ELSE pat

\* the token after lines 43-48; None or "" from the environment raises
ResolveToken(token, gh, pat) == IF token = None THEN EnvToken(gh, pat) ELSE token

TokenMissing(token, gh, pat) ==
    token = None /\ EnvToken(gh, pat) \in {None, ""}

Call(fn, arg, inputs, result) ==
    [fn |-> fn, arg |-> arg, inputs |-> inputs, result |-> result]

\* the calls on the client inside try/finally, with what each gave
ClientCalls(repo_name, workflow_id, ref, inputs, remote) ==
    LET get_repo(r) == Call("get_repo", repo_name, {}, r)
        get_workflow(r) == Call("get_workflow", workflow_id, {}, r)
        create_dispatch(r) ==
            Call("create_dispatch", ref, IF inputs = NoneInputs THEN {} ELSE inputs, r)
        close == Call("close", "", {}, "ok")
    IN  CASE remote = "repo_error" -> <<get_repo("raised"), close>>
          [] remote = "workflow_error" ->
                <<get_repo("ok"), get_workflow("raised"), close>>
          [] remote = "dispatch_error" ->
                <<get_repo("ok"), get_workflow("ok"), create_dispatch("raised"), close>>
          [] remote = "ack" ->
                <<get_repo("ok"), get_workflow("ok"), create_dispatch("True"), close>>
          [] remote = "nack" ->
                <<get_repo("ok"), get_workflow("ok"), create_dispatch("False"), close>>

\* a variant of lines 73-75 whose except clause returns False instead of
\* raising again
DispatchReturn_swallowing(remote) ==
    IF remote = "ack" THEN "True" ELSE "False"

\* what create_dispatch gave, when it was reached and did not raise
DispatchReturn(remote) ==
    CASE remote = "ack" -> "True"
      [] remote = "nack" -> "False"
      [] OTHER -> "raised"

\* trigger_workflow_dispatch(repo_name, workflow_id, ref, inputs, token) in an
\* environment (gh, pat) against a remote system behaving as `remote`
trigger_workflow_dispatch(repo_name, workflow_id, ref, inputs, token, gh, pat, remote) ==
    IF TokenMissing(token, gh, pat)
    THEN [error |-> "CredentialMissing", cred |-> None, calls |-> <<>>, ret |-> "raised"]
    ELSE [error |-> IF DispatchReturn(remote) = "raised" THEN "DispatchError" ELSE None,
          cred |-> ResolveToken(token, gh, pat),
          calls |-> ClientCalls(repo_name, workflow_id, ref, inputs, remote),
          ret |-> DispatchReturn(remote)]

\* ------------------------------------------------------------------------
\* cli.py: the commands
\* ------------------------------------------------------------------------

\* --target-repo, and the workflow and ref table_update passes
TargetRepo == "ooooo-create/ob"
WorkflowId == "autotable-update.yml"
Ref == "main"

Command(op, alias, repo, issue_number) ==
    [op |-> op, alias |-> alias, repo |-> repo, issue_number |-> issue_number]

\* a variant of get_config without lines 15-17: a missing file reads as an
\* empty parser
get_config_lenient ==
    IF ~exists THEN [ok |-> TRUE, error |-> None, conf |-> <<>>]
    ELSE IF ~read(file).ok THEN [ok |-> FALSE, error |-> "ParsingError", conf |-> <<>>]
    ELSE [ok |-> TRUE, error |-> None, conf |-> read(file).conf]

\* get_config(): exit 1 when the file does not exist, else the parser read
\* from it
get_config ==
    IF ~exists THEN [ok |-> FALSE, error |-> "ConfigMissing", conf |-> <<>>]
    ELSE IF ~read(file).ok THEN [ok |-> FALSE, error |-> "ParsingError", conf |-> <<>>]
    ELSE [ok |-> TRUE, error |-> None, conf |-> read(file).conf]

\* write_config(conf): the file after open(path, "w") and conf.write(f)
write_config(conf) == write(conf)

\* the command made no call of trigger_workflow_dispatch
NoDispatch ==
    /\ dispatched' = <<>>
    /\ cred' = None
    /\ calls' = <<>>
    /\ ret' = None

\* the parser table_add writes back
AddRecord(conf, alias, repo, issue_number) ==
    set(set(add_section(conf, alias), alias, "repo", repo),
        alias, "issue_number", IntToStr(issue_number))

\* a variant of table_add without lines 119-121
AddExit_unchecked(c, alias, repo) ==
    IF ~c.ok THEN c.error
    ELSE IF alias = "DEFAULT" \/ ~before_set(repo) THEN "ValueError"
    ELSE "ok"

\* how table_add ends, from the parser get_config gave it
AddExit(c, alias, repo) ==
    IF ~c.ok THEN c.error
    ELSE IF has_section(c.conf, alias) THEN "AliasExists"
    ELSE IF add_section_raises(c.conf, alias) \/ ~before_set(repo) THEN "ValueError"
    ELSE "ok"

\* a variant of table_remove without lines 133-135
RemoveExit_unchecked(c, alias) ==
    IF ~c.ok THEN c.error ELSE "ok"

\* how table_remove ends
RemoveExit(c, alias) ==
    IF ~c.ok THEN c.error
    ELSE IF ~has_section(c.conf, alias) THEN "AliasNotFound"
    ELSE "ok"

\* a variant of init that opens the file for writing instead of touching it
init_truncating ==
    /\ cmd' = Command("init", None, NoText, NoInt)
    /\ exists' = TRUE
    /\ file' = <<>>
    /\ exit' = "ok"
    /\ loads' = 0
    /\ table' = <<>>
    /\ NoDispatch
    /\ UNCHANGED added

\* ob init
init ==
    /\ cmd' = Command("init", None, NoText, NoInt)
    /\ exists' = TRUE
    /\ file' = file
    /\ exit' = "ok"
    /\ loads' = 0
    /\ table' = <<>>
    /\ NoDispatch
    /\ UNCHANGED added

\* ob table add <alias> <repo> <issue_number>
\* (c is what its call of get_config returns)
table_add(c, alias, repo, issue_number) ==
    /\ cmd' = Command("add", alias, repo, <<issue_number>>)
    /\ loads' = 1
    /\ exit' = AddExit(c, alias, repo)
    /\ IF AddExit(c, alias, repo) = "ok"
       THEN /\ file' = write_config(AddRecord(c.conf, alias, repo, issue_number))
            /\ added' = [added EXCEPT
                            ![alias] = <<[repo |-> repo, issue_number |-> issue_number]>>]
            /\ exists' = TRUE
       ELSE UNCHANGED <<exists, file, added>>
    /\ table' = <<>>
    /\ NoDispatch

\* ob table remove <alias>
table_remove(c, alias) ==
    /\ cmd' = Command("remove", alias, NoText, NoInt)
    /\ loads' = 1
    /\ exit' = RemoveExit(c, alias)
    /\ IF RemoveExit(c, alias) = "ok"
       THEN /\ file' = write_config(remove_section(c.conf, alias))
            /\ added' = [added EXCEPT ![alias] = <<>>]
            /\ exists' = TRUE
       ELSE UNCHANGED <<exists, file, added>>
    /\ table' = <<>>
    /\ NoDispatch

\* the rows table_show adds to the table
Rows(conf) ==
    [i \in 1..Len(conf) |->
        [alias |-> conf[i].name,
         repo |-> get_fallback(conf, conf[i].name, "repo"),
         issue_number |-> get_fallback(conf, conf[i].name, "issue_number")]]

\* ob table show
table_show(c) ==
    LET raised == \E i \in 1..Len(c.conf) :
                     \/ Rows(c.conf)[i].repo = InterpolationError
                     \/ Rows(c.conf)[i].issue_number = InterpolationError
    IN
    /\ cmd' = Command("show", None, NoText, NoInt)
    /\ loads' = 1
    /\ exit' = IF ~c.ok THEN c.error
               ELSE IF raised THEN "InterpolationError" ELSE "ok"
    /\ table' = IF c.ok /\ ~raised THEN Rows(c.conf) ELSE <<>>
    /\ NoDispatch
    /\ UNCHANGED <<exists, file, added>>

\* Python truthiness of the optional arguments of table_update
TruthyText(x) == x # NoText /\ x # <<>>
TruthyInt(x) == x # NoInt /\ x # <<0>>
TruthyAlias(x) == x # None /\ x # ""

Resolved(error, n_loads, owner_repo, issue_number) ==
    [error |-> error, loads |-> n_loads, owner_repo |-> owner_repo,
     issue_number |-> issue_number]

\* The operator Resolve below with one change each.
\* ResolveBy(c, owner_repo, issue_number, alias, eager, positional_first):
\* eager calls get_config before it looks at the arguments; positional_first
\* tests `owner_repo and issue_number` before `alias`.
ResolveBy(c, owner_repo, issue_number, alias, eager, positional_first) ==
    LET n == IF eager THEN 1 ELSE 0 IN
    IF eager /\ ~c.ok THEN Resolved(c.error, 1, <<>>, 0)
    ELSE IF positional_first /\ TruthyText(owner_repo) /\ TruthyInt(issue_number)
         THEN Resolved(None, n, owner_repo, issue_number[1])
    ELSE IF TruthyAlias(alias) THEN
        IF ~c.ok THEN Resolved(c.error, 1, <<>>, 0)
        ELSE IF ~has_section(c.conf, alias) THEN Resolved("AliasNotFound", 1, <<>>, 0)
        ELSE IF get(c.conf, alias, "repo") \in GetErrors
             THEN Resolved(get(c.conf, alias, "repo")[1], 1, <<>>, 0)
        ELSE IF get(c.conf, alias, "issue_number") \in GetErrors
             THEN Resolved(get(c.conf, alias, "issue_number")[1], 1, <<>>, 0)
        ELSE Resolved(None, 1, get(c.conf, alias, "repo"),
                      StrToInt(get(c.conf, alias, "issue_number")))
    ELSE IF TruthyText(owner_repo) /\ TruthyInt(issue_number)
         THEN Resolved(None, n, owner_repo, issue_number[1])
    ELSE Resolved("InsufficientArguments", n, <<>>, 0)

\* a variant of table_update that calls get_config on its first line
Resolve_loading_first(c, owner_repo, issue_number, alias) ==
    ResolveBy(c, owner_repo, issue_number, alias, TRUE, FALSE)

\* a variant of table_update that tests the positional arguments before
\* --alias
Resolve_positionals_first(c, owner_repo, issue_number, alias) ==
    ResolveBy(c, owner_repo, issue_number, alias, FALSE, TRUE)

\* lines 59-78 of table_update: the (owner_repo, issue_number) it goes on
\* with, or the error that ends it; c is what get_config gives when called
Resolve(c, owner_repo, issue_number, alias) ==
    IF TruthyAlias(alias) THEN
        IF ~c.ok THEN Resolved(c.error, 1, <<>>, 0)
        ELSE IF ~has_section(c.conf, alias) THEN Resolved("AliasNotFound", 1, <<>>, 0)
        ELSE IF get(c.conf, alias, "repo") \in GetErrors
             THEN Resolved(get(c.conf, alias, "repo")[1], 1, <<>>, 0)
        ELSE IF get(c.conf, alias, "issue_number") \in GetErrors
             THEN Resolved(get(c.conf, alias, "issue_number")[1], 1, <<>>, 0)
        ELSE Resolved(None, 1, get(c.conf, alias, "repo"),
                      StrToInt(get(c.conf, alias, "issue_number")))
    ELSE IF TruthyText(owner_repo) /\ TruthyInt(issue_number)
         THEN Resolved(None, 0, owner_repo, issue_number[1])
    ELSE Resolved("InsufficientArguments", 0, <<>>, 0)

\* the inputs dict of lines 85-88
Inputs(owner_repo, issue_number) ==
    {<<"owner_repo", owner_repo>>, <<"issue_number", IntToStr(issue_number)>>}

\* a call of trigger_workflow_dispatch: its arguments and the environment
\* it ran in
Dispatched(repo_name, workflow_id, ref, inputs, token, gh, pat) ==
    [repo_name |-> repo_name, workflow_id |-> workflow_id, ref |-> ref,
     inputs |-> inputs, token |-> token, GITHUB_TOKEN |-> gh, PAT |-> pat]

\* ob table update [<owner_repo> <issue_number>] [--alias A] [--token T], run
\* with GITHUB_TOKEN = gh and PAT = pat, the remote system behaving as remote
\* (c is what a call of get_config returns)
table_update(c, owner_repo, issue_number, alias, token, gh, pat, remote) ==
    \E r \in {Resolve(c, owner_repo, issue_number, alias)} :
    \E inputs \in {Inputs(r.owner_repo, r.issue_number)} :
    \E d \in {trigger_workflow_dispatch(TargetRepo, WorkflowId, Ref, inputs,
                                        token, gh, pat, remote)} :
    /\ cmd' = Command("update", alias, owner_repo, issue_number)
    /\ loads' = r.loads
    /\ IF r.error # None
       THEN /\ exit' = r.error
            /\ NoDispatch
       ELSE /\ dispatched' = <<Dispatched(TargetRepo, WorkflowId, Ref, inputs, token, gh, pat)>>
            /\ cred' = d.cred
            /\ calls' = d.calls
            /\ ret' = d.ret
            /\ exit' = IF d.error # None THEN d.error ELSE "ok"
    /\ table' = <<>>
    /\ UNCHANGED <<exists, file, added>>

\* ------------------------------------------------------------------------
\* The specification of the command line
\* ------------------------------------------------------------------------

\* the positional arguments, the aliases, tokens and environments
\* `table update` is run with
UpdateRepoInputs == {NoText, <<>>, <<"x">>}
UpdateIssueInputs == {NoInt, <<0>>, <<5>>}
TokenInputs == {None, "t"}
GithubTokenInputs == {None, "", "g"}
PatInputs == {None, "", "p"}

\* before the first invocation: no store file
Init ==
    /\ exists = FALSE
    /\ file = <<>>
    /\ added = [a \in Aliases |-> <<>>]
    /\ cmd = Command("none", None, NoText, NoInt)
    /\ exit = "ok"
    /\ loads = 0
    /\ table = <<>>
    /\ dispatched = <<>>
    /\ cred = None
    /\ calls = <<>>
    /\ ret = None

\* One run of `table update` with the arguments given.  The token is drawn
\* only when lines 59-78 let the command reach trigger_workflow_dispatch,
\* and the remote system's answer only when a client is built; the
\* environment holds no token.
UpdateRun(c, owner_repo, n, alias) ==
    IF Resolve(c, owner_repo, n, alias).error # None
    THEN table_update(c, owner_repo, n, alias, None, None, None, "ack")
    ELSE \E token \in TokenInputs :
            IF TokenMissing(token, None, None)
            THEN table_update(c, owner_repo, n, alias, token, None, None, "ack")
            ELSE \E remote \in RemoteBehaviours :
                    table_update(c, owner_repo, n, alias, token, None, None, remote)

Add == \E c \in {get_config} : \E alias \in Aliases, i \in AddInputs :
          table_add(c, alias, i.repo, i.issue_number)

Remove == \E c \in {get_config} : \E alias \in Aliases : table_remove(c, alias)

Show == \E c \in {get_config} : table_show(c)

\* table update --alias A, alone or after both positional arguments
UpdateByAlias ==
    \E c \in {get_config} :
    \E alias \in Aliases, pos \in {<<NoText, NoInt>>, <<<<"x">>, <<5>>>>} :
        UpdateRun(c, pos[1], pos[2], alias)

\* table update without --alias
UpdateDirect ==
    \E c \in {get_config} :
    \E owner_repo \in UpdateRepoInputs, n \in UpdateIssueInputs :
        UpdateRun(c, owner_repo, n, None)

Next ==
    \/ init
    \/ Add
    \/ Remove
    \/ Show
    \/ UpdateByAlias
    \/ UpdateDirect

Spec == Init /\ [][Next]_vars

\* ------------------------------------------------------------------------
\* The specification of the dispatch client called on its own
\* ------------------------------------------------------------------------

DispatchInputs == {NoneInputs, {}, Inputs(<<"o">>, 7)}

\* one call of trigger_workflow_dispatch
dispatch(inputs, token, gh, pat, remote) ==
    LET d == trigger_workflow_dispatch(TargetRepo, WorkflowId, Ref, inputs,
                                       token, gh, pat, remote)
    IN
    /\ cmd' = Command("dispatch", None, NoText, NoInt)
    /\ dispatched' = <<Dispatched(TargetRepo, WorkflowId, Ref, inputs, token, gh, pat)>>
    /\ cred' = d.cred
    /\ calls' = d.calls
    /\ ret' = d.ret
    /\ exit' = IF d.error # None THEN d.error ELSE "ok"
    /\ loads' = 0
    /\ table' = <<>>
    /\ UNCHANGED <<exists, file, added>>

Dispatch ==
    \E inputs \in DispatchInputs, token \in TokenInputs,
       gh \in GithubTokenInputs, pat \in PatInputs, remote \in RemoteBehaviours :
          dispatch(inputs, token, gh, pat, remote)

SpecDispatch == Init /\ [][Dispatch]_vars

\* ------------------------------------------------------------------------
\* The specification of the store commands with a process that can die in
\* write_config
\* ------------------------------------------------------------------------

\* the text cut after block k - 1, inside block k: m of its option lines are
\* whole, and the line after them is either not there or torn
CutInside(blocks, k, m, torn) ==
    Append(SubSeq(blocks, 1, k - 1),
           Block(blocks[k].name, SubSeq(blocks[k].opts, 1, m), torn))

\* what write_config(conf) can leave in the file when the process dies in
\* it: the old text (before open), or, once open(path, "w") has emptied the
\* file, any part of the new text that reached the disk, the whole included
write_config_killed(old, conf) ==
    {old}
    \cup {SubSeq(write(conf), 1, k) : k \in 0..Len(conf)}
    \cup UNION {{CutInside(write(conf), k, m, torn) :
                    m \in 0..(Len(conf[k].opts) - 1), torn \in BOOLEAN} :
                k \in 1..Len(conf)}

\* ob table add, killed while it writes the file
table_add_killed(c, alias, repo, issue_number) ==
    /\ AddExit(c, alias, repo) = "ok"
    /\ cmd' = Command("add", alias, repo, <<issue_number>>)
    /\ loads' = 1
    /\ exit' = "killed"
    /\ file' \in write_config_killed(file, AddRecord(c.conf, alias, repo, issue_number))
    /\ table' = <<>>
    /\ NoDispatch
    /\ UNCHANGED <<exists, added>>

\* ob table remove, killed while it writes the file
table_remove_killed(c, alias) ==
    /\ RemoveExit(c, alias) = "ok"
    /\ cmd' = Command("remove", alias, NoText, NoInt)
    /\ loads' = 1
    /\ exit' = "killed"
    /\ file' \in write_config_killed(file, remove_section(c.conf, alias))
    /\ table' = <<>>
    /\ NoDispatch
    /\ UNCHANGED <<exists, added>>

AddKilled == \E c \in {get_config} : \E alias \in Aliases, i \in AddInputs :
                table_add_killed(c, alias, i.repo, i.issue_number)

RemoveKilled == \E c \in {get_config} : \E alias \in Aliases :
                   table_remove_killed(c, alias)

NextKilled ==
    \/ init
    \/ Add
    \/ Remove
    \/ Show
    \/ AddKilled
    \/ RemoveKilled

SpecKilled == Init /\ [][NextKilled]_vars


\* ------------------------------------------------------------------------
\* The properties
\* ------------------------------------------------------------------------

\* the aliases of the records in the file
StoredNames == {file[i].name : i \in 1..Len(file)}

\* no two records of f have the same alias
UniqueNames(f) ==
    \A i, j \in 1..Len(f) : i # j => f[i].name # f[j].name

\* C1: the store holds at most one record per alias in every reachable
\* state; `table add` of an alias that has a record ends with AliasExists
\* and leaves the file as it is, and a `table add` that changes the file
\* was given an alias that had no record and appends exactly that record's
\* alias.
C1_AtMostOneRecordPerAlias ==
    /\ [](UniqueNames(file))
    /\ [][cmd'.op = "add" /\ exists =>
            /\ cmd'.alias \in StoredNames =>
                  exit' = "AliasExists" /\ file' = file
            /\ file' # file =>
                  /\ cmd'.alias \notin StoredNames
                  /\ exit' = "ok"
                  /\ sections(file') = Append(sections(file), cmd'.alias)]_vars

C1_Witness ==
    /\ cmd.op = "add"
    /\ exit = "AliasExists"
    /\ cmd.alias \in StoredNames

\* C2: a `table add` whose alias has a record ends with AliasExists, a
\* `table remove` whose alias has none ends with AliasNotFound, and every
\* `table add` or `table remove` that does not end "ok" leaves the file
\* byte for byte (records, values and order) as it was.
C2_FailedMutationKeepsStore ==
    [][/\ cmd'.op = "add" /\ exists /\ cmd'.alias \in StoredNames =>
             exit' = "AliasExists"
       /\ cmd'.op = "remove" /\ exists /\ cmd'.alias \notin StoredNames =>
             exit' = "AliasNotFound"
       /\ cmd'.op \in {"add", "remove"} /\ exit' # "ok" =>
             file' = file /\ exists' = exists]_vars

C2_Witness ==
    /\ cmd.op = "remove"
    /\ exit = "AliasNotFound"
    /\ exists
    /\ Len(file) >= 1

\* C3: in every reachable state with a store, an alias has a record exactly
\* when a `table add` of it succeeded and no `table remove` of it has since,
\* and reading that record gives the repo and the issue number that `table
\* add` was given.
C3_GetReturnsWhatAddWasGiven ==
    exists /\ read(file).ok =>
        \A a \in Aliases :
            /\ has_section(read(file).conf, a) <=> added[a] # <<>>
            /\ added[a] # <<>> =>
                  /\ get(read(file).conf, a, "repo") = added[a][1].repo
                  /\ get(read(file).conf, a, "issue_number")
                        = IntToStr(added[a][1].issue_number)

\* C4: while the file does not exist, add, remove, show and update --alias
\* end with ConfigMissing, do not create the file and dispatch nothing; only
\* init makes the file exist; once it exists no command ends with
\* ConfigMissing and it goes on existing.
C4_ConfigMissingUntilInit ==
    [][/\ ~exists /\ (\/ cmd'.op \in {"add", "remove", "show"}
                      \/ cmd'.op = "update" /\ TruthyAlias(cmd'.alias)) =>
             /\ exit' = "ConfigMissing"
             /\ ~exists'
             /\ file' = file
             /\ dispatched' = <<>>
             /\ calls' = <<>>
       /\ ~exists /\ exists' => cmd'.op = "init"
       /\ exists => exists' /\ exit' # "ConfigMissing"]_vars

C4_Witness ==
    /\ ~exists
    /\ cmd.op = "update"
    /\ TruthyAlias(cmd.alias)
    /\ exit = "ConfigMissing"

\* C5: init always ends "ok" with the file existing; on a missing file it
\* leaves an empty store, on an existing one it leaves every record as it
\* was.
C5_InitKeepsStore ==
    [][cmd'.op = "init" =>
          /\ exit' = "ok"
          /\ exists'
          /\ file' = IF exists THEN file ELSE <<>>]_vars

C5_Witness ==
    /\ cmd.op = "init"
    /\ exists
    /\ Len(file) >= 1

\* an environment variable that is set (to a non-empty value)
IsSet(v) == v # None /\ v # ""

\* C6: the client is built with the token argument when one is passed,
\* otherwise with GITHUB_TOKEN when it is set, otherwise with PAT when it is
\* set; with no argument and neither variable set the call ends with
\* CredentialMissing and has made no call on the remote system.
C6_CredentialPriority ==
    dispatched # <<>> =>
        LET d == dispatched[1] IN
        /\ d.token # None => cred = d.token
        /\ d.token = None /\ IsSet(d.GITHUB_TOKEN) => cred = d.GITHUB_TOKEN
        /\ d.token = None /\ ~IsSet(d.GITHUB_TOKEN) /\ IsSet(d.PAT) => cred = d.PAT
        /\ d.token = None /\ ~IsSet(d.GITHUB_TOKEN) /\ ~IsSet(d.PAT) =>
              /\ exit = "CredentialMissing"
              /\ cred = None
              /\ calls = <<>>
        /\ exit = "CredentialMissing" =>
              d.token = None /\ ~IsSet(d.GITHUB_TOKEN) /\ ~IsSet(d.PAT)

C6_Witness ==
    /\ dispatched # <<>>
    /\ dispatched[1].token = None
    /\ dispatched[1].GITHUB_TOKEN = "g"
    /\ dispatched[1].PAT = "p"
    /\ cred = "g"
    /\ calls # <<>>

\* the create_dispatch calls made, and whether a call on the client raised
CreateDispatchCalls == {i \in 1..Len(calls) : calls[i].fn = "create_dispatch"}
SomeCallRaised == \E i \in 1..Len(calls) : calls[i].result = "raised"

\* C7: a call of trigger_workflow_dispatch that has a credential makes at
\* most one create_dispatch call and ends in one of three ways: it returns
\* True when create_dispatch gave True, it returns False without an error
\* when create_dispatch gave False, and it raises a DispatchError exactly
\* when a call on the client raised, no call but close following that one.
C7_ThreeOutcomes ==
    dispatched # <<>> /\ exit # "CredentialMissing" =>
        /\ Cardinality(CreateDispatchCalls) <= 1
        /\ ret \in {"True", "False", "raised"}
        /\ ret = "True" <=>
              \E i \in CreateDispatchCalls : calls[i].result = "True"
        /\ ret = "False" <=>
              \E i \in CreateDispatchCalls : calls[i].result = "False"
        /\ ret = "raised" <=> SomeCallRaised
        /\ exit = IF SomeCallRaised THEN "DispatchError" ELSE "ok"
        /\ \A i \in 1..Len(calls) :
              calls[i].result = "raised" =>
                 \A j \in (i + 1)..Len(calls) : calls[j].fn = "close"

C7_Witness ==
    /\ cmd.op = "dispatch"
    /\ ret = "raised"
    /\ exit = "DispatchError"
    /\ CreateDispatchCalls = {}
    /\ \E i \in 1..Len(calls) :
          calls[i].fn = "get_workflow" /\ calls[i].result = "raised"

\* C8: `table update` without --alias and without both positional arguments
\* (neither, only the repo, or only the issue number) ends with
\* InsufficientArguments, has not called get_config and has dispatched
\* nothing.
C8_InsufficientArguments ==
    (/\ cmd.op = "update"
     /\ cmd.alias = None
     /\ cmd.repo = NoText \/ cmd.issue_number = NoInt) =>
        /\ exit = "InsufficientArguments"
        /\ loads = 0
        /\ dispatched = <<>>
        /\ calls = <<>>

C8_Witness ==
    /\ cmd.op = "update"
    /\ cmd.alias = None
    /\ cmd.repo = <<"x">>
    /\ cmd.issue_number = NoInt
    /\ exit = "InsufficientArguments"

C10_KilledWriteIsAtomic ==
    [][exit' = "killed" =>
          \/ file' = file
          \/ /\ cmd'.op = "add"
             /\ file' = write_config(AddRecord(read(file).conf, cmd'.alias,
                                               cmd'.repo, cmd'.issue_number[1]))
          \/ /\ cmd'.op = "remove"
             /\ file' = write_config(remove_section(read(file).conf, cmd'.alias))]_vars

====
